---- MODULE Spec2Model ----
(***************************************************************************)
(* The communications layer with the data collector                        *)
(* (newrelic/core/data_collector.py): Session, DeveloperModeSession,       *)
(* ServerlessModeSession and create_session.                               *)
(*                                                                         *)
(* One session is followed from create_session on.  The collaborators      *)
(* (AgentProtocol, OtlpProtocol, StreamingRpc, process_user_attribute) are *)
(* outside the module: what they are asked to do is recorded call by call  *)
(* in `calls`, and the outcome of each of their operations (a response, a  *)
(* raised exception) is an input of the action that makes the call.        *)
(***************************************************************************)
EXTENDS Integers, Sequences, FiniteSets, TLC

(***************************************************************************)
(* Bounds of the model.                                                    *)
(***************************************************************************)
\* StreamingRpc objects the model lets a session construct.  The code never
\* constructs a second one, so the cap binds only when that guard is broken.
MaxChannels == 2
MaxThreads == 2

(***************************************************************************)
(* Python values.                                                          *)
(***************************************************************************)
\* self._rpc = None; a constructed StreamingRpc is named by its index in
\* `channels` (1, 2, ...), so 0 is free to stand for None.
None == 0

\* infinite_tracing.trace_observer_host when it is not set (Python None).
NoHost == "<None>"

\* `not self._rpc`: a StreamingRpc object is truthy, None is falsy.
ObjTruthy(obj) == obj # None

\* `not host`: None and the empty string are falsy.
StrTruthy(s) == s # NoHost /\ s # ""

(***************************************************************************)
(* Input domains.                                                          *)
(***************************************************************************)
Hosts == {NoHost, "", "observer.example"}
Ports == {443}
SpanIterators == {"span_iterator_1", "span_iterator_2"}
RecordMetrics == {"record_metric"}
AgentRunId == "run-1"
LicenseKey == "license-1"

\* global_settings(): the two flags create_session reads.
Settings == [serverless_mode_enabled : BOOLEAN, developer_mode : BOOLEAN]

\* self.configuration (self._protocol.configuration): the fields read by the
\* span-stream methods and the payload methods.  The four fields read by
\* get_log_events_common_block (application_logging.forwarding.custom_attributes,
\* labels, application_logging.forwarding.labels.enabled and .exclude) keep
\* their defaults here and are varied in LogConfigurations.
Configurations ==
    [trace_observer_host : Hosts,
     trace_observer_port : Ports,
     ssl : BOOLEAN,
     compression : {"gzip"},
     distributed_tracing_enabled : BOOLEAN,
     span_events_enabled : BOOLEAN,
     collect_span_events : BOOLEAN,
     connect_span_stream_in_developer_mode : BOOLEAN,
     agent_run_id : {AgentRunId},
     license_key : {LicenseKey},
     custom_attributes : {<< >>},
     labels : {<< >>},
     labels_enabled : {FALSE},
     labels_exclude : {{}}]

\* The configuration before any protocol has connected: nothing is set.
NoConfiguration ==
    [trace_observer_host |-> NoHost,
     trace_observer_port |-> 443,
     ssl |-> TRUE,
     compression |-> "gzip",
     distributed_tracing_enabled |-> FALSE,
     span_events_enabled |-> FALSE,
     collect_span_events |-> FALSE,
     connect_span_stream_in_developer_mode |-> FALSE,
     agent_run_id |-> AgentRunId,
     license_key |-> LicenseKey,
     custom_attributes |-> << >>,
     labels |-> << >>,
     labels_enabled |-> FALSE,
     labels_exclude |-> {}]

\* What Protocol.send gives back: nothing, agent commands, or an exception.
SendOutcomes == {"None", "commands", "raise"}

\* What Protocol.close_connection and Protocol.finalize do: return, or raise.
CallOutcomes == {"None", "raise"}

VARIABLES
    settings,       \* global_settings()
    session,        \* class of the session create_session returned, "None" before
    _protocol,      \* self._protocol: class of the connected primary protocol
    _otlp_protocol, \* self._otlp_protocol: class of the connected OTLP protocol
    _rpc,           \* self._rpc: None or the index of the stored StreamingRpc
    configuration,  \* self.configuration
    channels,       \* the StreamingRpc objects constructed so far
    args,           \* the arguments of the last operation
    calls,          \* the collaborator calls the last operation made, in order
    ret,            \* the last operation and what it returned
    threads         \* the connect_span_stream calls in progress, by caller

vars == <<settings, session, _protocol, _otlp_protocol, _rpc, configuration,
          channels, args, calls, ret, threads>>

\* The callers of the session.  A caller is idle, or inside
\* connect_span_stream: at "construct" it has passed the tests of lines 55-69
\* and is about to run line 75; at "connect" it has stored the channel `rpc`
\* and is about to run line 78.
Threads == 1..MaxThreads

Idle == [pc |-> "idle", span_iterator |-> "None", record_metric |-> "None", rpc |-> 0]

NoThreads == [t \in Threads |-> Idle]

\* The record kept of an operation's return.
\*   kind "None": returned nothing; "rpc": returned StreamingRpc number value;
\*   "raise": an exception propagated; "session": returned a session;
\*   "empty_tuple": returned (); "commands": returned Protocol.send's response.
Ret(op, kind, value) == [op |-> op, kind |-> kind, value |-> value]

\* A caller that swallows the exception of Protocol.send and returns None.
SendReturn_Swallows(op, outcome) ==
    Ret(op, IF outcome = "raise" THEN "None" ELSE outcome, 0)

\* Protocol.send(endpoint, payload) seen from the caller.
SendReturn(op, outcome) == Ret(op, outcome, 0)

(***************************************************************************)
(* Session.__init__ and create_session.                                    *)
(***************************************************************************)
\* PROTOCOL, OTLP_PROTOCOL and CLIENT of each class.
PROTOCOL(cls) ==
    IF cls = "ServerlessModeSession" THEN "ServerlessModeProtocol" ELSE "AgentProtocol"

OTLP_PROTOCOL(cls) == "OtlpProtocol"

CLIENT(cls) ==
    CASE cls = "ServerlessModeSession" -> "ServerlessModeClient"
      [] cls = "DeveloperModeSession" -> "DeveloperModeClient"
      [] OTHER -> "ApplicationModeClient"

\* Mutant of SessionClass: developer mode is tested before serverless mode.
SessionClass_DeveloperFirst(s) ==
    IF s.developer_mode THEN "DeveloperModeSession"
    ELSE IF s.serverless_mode_enabled THEN "ServerlessModeSession"
    ELSE "Session"

\* The class create_session instantiates for the settings s.
SessionClass(s) ==
    IF s.serverless_mode_enabled THEN "ServerlessModeSession"
    ELSE IF s.developer_mode THEN "DeveloperModeSession"
    ELSE "Session"

\* Mutant of Resolve: ServerlessModeSession overrides connect_span_stream only.
Resolve_ServerlessOverridesOnlyConnect(cls, method) ==
    IF cls = "ServerlessModeSession" /\ method = "connect_span_stream"
    THEN "ServerlessModeSession"
    ELSE IF cls = "DeveloperModeSession" /\ method = "connect_span_stream"
    THEN "DeveloperModeSession"
    ELSE "Session"

\* The class whose definition of `method` runs on an instance of cls:
\* DeveloperModeSession overrides connect_span_stream; ServerlessModeSession
\* overrides connect_span_stream, get_agent_commands and shutdown_session.
Resolve(cls, method) ==
    IF cls = "ServerlessModeSession"
           /\ method \in {"connect_span_stream", "get_agent_commands", "shutdown_session"}
    THEN "ServerlessModeSession"
    ELSE IF cls = "DeveloperModeSession" /\ method = "connect_span_stream"
    THEN "DeveloperModeSession"
    ELSE "Session"

\* A session exists and its `method` is the one class `owner` defines.
Runs(owner, method) == session # "None" /\ Resolve(session, method) = owner

\* cls.PROTOCOL.connect(..., client_cls=cls.CLIENT), ok: whether it returns.
ConnectCall(protocol, cls, ok) ==
    [on |-> protocol, method |-> "connect", client_cls |-> CLIENT(cls), ok |-> ok]

\* A constructor that goes on to the OTLP connect after the primary connect
\* has failed, and fails only when the OTLP connect fails.
Session__init___IgnoresPrimaryFailure(cls, conf, primaryOk, otlpOk) ==
    IF ~otlpOk THEN
        /\ calls' = <<ConnectCall(PROTOCOL(cls), cls, primaryOk),
                      ConnectCall(OTLP_PROTOCOL(cls), cls, FALSE)>>
        /\ ret' = Ret("create_session", "raise", 0)
        /\ UNCHANGED <<session, _protocol, _otlp_protocol, _rpc, configuration>>
    ELSE
        /\ calls' = <<ConnectCall(PROTOCOL(cls), cls, primaryOk),
                      ConnectCall(OTLP_PROTOCOL(cls), cls, TRUE)>>
        /\ _protocol' = PROTOCOL(cls)
        /\ _otlp_protocol' = OTLP_PROTOCOL(cls)
        /\ _rpc' = None
        /\ configuration' = conf
        /\ session' = cls
        /\ ret' = Ret("create_session", "session", 0)

\* Session.__init__ for class cls: connect the primary protocol, then the OTLP
\* protocol, then self._rpc = None.  primaryOk/otlpOk: whether each connect
\* succeeds; a failed connect raises out of the constructor.
Session__init__(cls, conf, primaryOk, otlpOk) ==
    IF ~primaryOk THEN
        /\ calls' = <<ConnectCall(PROTOCOL(cls), cls, FALSE)>>
        /\ ret' = Ret("create_session", "raise", 0)
        /\ UNCHANGED <<session, _protocol, _otlp_protocol, _rpc, configuration>>
    ELSE IF ~otlpOk THEN
        /\ calls' = <<ConnectCall(PROTOCOL(cls), cls, TRUE),
                      ConnectCall(OTLP_PROTOCOL(cls), cls, FALSE)>>
        /\ ret' = Ret("create_session", "raise", 0)
        /\ UNCHANGED <<session, _protocol, _otlp_protocol, _rpc, configuration>>
    ELSE
        /\ calls' = <<ConnectCall(PROTOCOL(cls), cls, TRUE),
                      ConnectCall(OTLP_PROTOCOL(cls), cls, TRUE)>>
        /\ _protocol' = PROTOCOL(cls)
        /\ _otlp_protocol' = OTLP_PROTOCOL(cls)
        /\ _rpc' = None
        /\ configuration' = conf
        /\ session' = cls
        /\ ret' = Ret("create_session", "session", 0)

create_session ==
    /\ session = "None"
    /\ \E conf \in Configurations, primaryOk \in BOOLEAN, otlpOk \in BOOLEAN :
          Session__init__(SessionClass(settings), conf, primaryOk, otlpOk)
    /\ args' = << >>
    /\ UNCHANGED <<threads, settings, channels>>

(***************************************************************************)
(* The configuration object is owned by the host, which may change it      *)
(* between two calls of the session.                                       *)
(***************************************************************************)
Reconfigure ==
    /\ session # "None"
    /\ \E conf \in Configurations : configuration' = conf
    /\ UNCHANGED <<threads, settings, session, _protocol, _otlp_protocol, _rpc, channels,
                   args, calls, ret>>

(***************************************************************************)
(* Span stream.                                                            *)
(***************************************************************************)
\* endpoint = f"{host}:{port}"
Endpoint(host, port) == host \o ":" \o ToString(port)

\* Mutant of Metadata: the two header entries in the other order.
Metadata_LicenseKeyFirst(conf) ==
    << <<"license_key", conf.license_key>>,
       <<"agent_run_token", conf.agent_run_id>> >>

\* metadata = (("agent_run_token", agent_run_id), ("license_key", license_key))
Metadata(conf) ==
    << <<"agent_run_token", conf.agent_run_id>>,
       <<"license_key", conf.license_key>> >>

\* Mutant of SpanEventsWanted: collect_span_events is not consulted.
SpanEventsWanted_IgnoresCollect(conf) ==
    /\ conf.distributed_tracing_enabled
    /\ conf.span_events_enabled

\* distributed_tracing.enabled and span_events.enabled and collect_span_events
SpanEventsWanted(conf) ==
    /\ conf.distributed_tracing_enabled
    /\ conf.span_events_enabled
    /\ conf.collect_span_events

\* StreamingRpc(endpoint, span_iterator, metadata, record_metric, ssl=, compression=)
StreamingRpc(endpoint, span_iterator, metadata, record_metric, ssl, compression) ==
    [endpoint |-> endpoint,
     span_iterator |-> span_iterator,
     metadata |-> metadata,
     record_metric |-> record_metric,
     ssl |-> ssl,
     compression |-> compression,
     connect_calls |-> 0,
     connected |-> FALSE,
     closed |-> FALSE]

\* Mutant of CreatesChannel: the `if not self._rpc` test is missing.
CreatesChannel_NoRpcCheck ==
    /\ StrTruthy(configuration.trace_observer_host)
    /\ SpanEventsWanted(configuration)

\* Mutant of CreatesChannel: a closed channel counts as no channel.
CreatesChannel_ReopensClosed ==
    /\ (~ObjTruthy(_rpc) \/ channels[_rpc].closed)
    /\ StrTruthy(configuration.trace_observer_host)
    /\ SpanEventsWanted(configuration)

\* Whether Session.connect_span_stream reaches the StreamingRpc constructor.
CreatesChannel ==
    /\ ~ObjTruthy(_rpc)
    /\ StrTruthy(configuration.trace_observer_host)
    /\ SpanEventsWanted(configuration)

\* A connect_span_stream that, when it has no channel and creates none,
\* stores a closed placeholder in self._rpc.
Session_connect_span_stream_effect_StoresOnSkip(span_iterator, record_metric, connectOk) ==
    LET rpc == StreamingRpc(
                   Endpoint(configuration.trace_observer_host,
                            configuration.trace_observer_port),
                   span_iterator, Metadata(configuration), record_metric,
                   configuration.ssl, configuration.compression)
        id == Len(channels) + 1
    IN  IF CreatesChannel THEN
            /\ Len(channels) < MaxChannels
            /\ _rpc' = id
            /\ channels' = Append(channels,
                              [rpc EXCEPT !.connect_calls = 1, !.connected = connectOk])
            /\ calls' = << [on |-> "StreamingRpc", method |-> "__init__", obj |-> id],
                           [on |-> "StreamingRpc", method |-> "connect", obj |-> id] >>
        ELSE IF ~ObjTruthy(_rpc) /\ Len(channels) < MaxChannels THEN
            /\ _rpc' = id
            /\ channels' = Append(channels, [rpc EXCEPT !.closed = TRUE])
            /\ calls' = << >>
        ELSE
            /\ calls' = << >>
            /\ UNCHANGED <<_rpc, channels>>

\* State change of Session.connect_span_stream: construct, store in self._rpc,
\* then rpc.connect(), which raises when connectOk is false.
Session_connect_span_stream_effect(span_iterator, record_metric, connectOk) ==
    IF CreatesChannel THEN
        LET rpc == StreamingRpc(
                       Endpoint(configuration.trace_observer_host,
                                configuration.trace_observer_port),
                       span_iterator, Metadata(configuration), record_metric,
                       configuration.ssl, configuration.compression)
            id == Len(channels) + 1
        IN  /\ Len(channels) < MaxChannels
            /\ _rpc' = id
            /\ channels' = Append(channels,
                              [rpc EXCEPT !.connect_calls = 1, !.connected = connectOk])
            /\ calls' = << [on |-> "StreamingRpc", method |-> "__init__", obj |-> id],
                           [on |-> "StreamingRpc", method |-> "connect", obj |-> id] >>
    ELSE
        /\ calls' = << >>
        /\ UNCHANGED <<_rpc, channels>>

\* What Session.connect_span_stream returns.
Session_connect_span_stream_return(connectOk) ==
    IF CreatesChannel THEN
        IF connectOk THEN Ret("connect_span_stream", "rpc", Len(channels) + 1)
        ELSE Ret("connect_span_stream", "raise", 0)
    ELSE Ret("connect_span_stream", "None", 0)

Session_connect_span_stream ==
    /\ Runs("Session", "connect_span_stream")
    /\ \E it \in SpanIterators, rm \in RecordMetrics, connectOk \in BOOLEAN :
          /\ Session_connect_span_stream_effect(it, rm, connectOk)
          /\ ret' = Session_connect_span_stream_return(connectOk)
          /\ args' = <<it, rm>>
    /\ UNCHANGED <<threads, settings, session, _protocol, _otlp_protocol, configuration>>

\* Mutant of DeveloperGateOpen: the debug flag is not consulted.
DeveloperGateOpen_Always == TRUE

\* The developer-mode gate.
DeveloperGateOpen == configuration.connect_span_stream_in_developer_mode

\* What DeveloperModeSession.connect_span_stream returns: the call to super()
\* is a statement, its value is dropped; an exception still propagates.
DeveloperModeSession_connect_span_stream_return(connectOk) ==
    IF DeveloperGateOpen
           /\ Session_connect_span_stream_return(connectOk).kind = "raise"
    THEN Ret("connect_span_stream", "raise", 0)
    ELSE Ret("connect_span_stream", "None", 0)

DeveloperModeSession_connect_span_stream ==
    /\ Runs("DeveloperModeSession", "connect_span_stream")
    /\ \E it \in SpanIterators, rm \in RecordMetrics, connectOk \in BOOLEAN :
          /\ IF DeveloperGateOpen
             THEN Session_connect_span_stream_effect(it, rm, connectOk)
             ELSE calls' = << >> /\ UNCHANGED <<_rpc, channels>>
          /\ ret' = DeveloperModeSession_connect_span_stream_return(connectOk)
          /\ args' = <<it, rm>>
    /\ UNCHANGED <<threads, settings, session, _protocol, _otlp_protocol, configuration>>

\* ServerlessModeSession.connect_span_stream: pass
ServerlessModeSession_connect_span_stream ==
    /\ Runs("ServerlessModeSession", "connect_span_stream")
    /\ \E it \in SpanIterators, rm \in RecordMetrics : args' = <<it, rm>>
    /\ calls' = << >>
    /\ ret' = Ret("connect_span_stream", "None", 0)
    /\ UNCHANGED <<threads, settings, session, _protocol, _otlp_protocol, _rpc,
                   configuration, channels>>

\* Mutant of shutdown_span_stream: the `if self._rpc` test is missing, so
\* close() is looked up on None and the AttributeError propagates.
shutdown_span_stream_unguarded ==
    /\ Runs("Session", "shutdown_span_stream")
    /\ args' = << >>
    /\ IF ObjTruthy(_rpc) THEN
           /\ channels' = [channels EXCEPT ![_rpc].closed = TRUE]
           /\ calls' = << [on |-> "StreamingRpc", method |-> "close", obj |-> _rpc] >>
           /\ ret' = Ret("shutdown_span_stream", "None", 0)
       ELSE
           /\ calls' = << >>
           /\ ret' = Ret("shutdown_span_stream", "raise", 0)
           /\ UNCHANGED channels
    /\ UNCHANGED <<threads, settings, session, _protocol, _otlp_protocol, _rpc, configuration>>

\* A shutdown_span_stream that closes the primary protocol's connection too.
shutdown_span_stream_ClosesConnection ==
    /\ Runs("Session", "shutdown_span_stream")
    /\ args' = << >>
    /\ IF ObjTruthy(_rpc) THEN
           /\ channels' = [channels EXCEPT ![_rpc].closed = TRUE]
           /\ calls' = << [on |-> "StreamingRpc", method |-> "close", obj |-> _rpc],
                          [on |-> "_protocol", method |-> "close_connection",
                           outcome |-> "None"] >>
       ELSE
           /\ calls' = << >>
           /\ UNCHANGED channels
    /\ ret' = Ret("shutdown_span_stream", "None", 0)
    /\ UNCHANGED <<threads, settings, session, _protocol, _otlp_protocol, _rpc, configuration>>

\* Session.shutdown_span_stream (inherited by both variants).
shutdown_span_stream ==
    /\ Runs("Session", "shutdown_span_stream")
    /\ args' = << >>
    /\ IF ObjTruthy(_rpc) THEN
           /\ channels' = [channels EXCEPT ![_rpc].closed = TRUE]
           /\ calls' = << [on |-> "StreamingRpc", method |-> "close", obj |-> _rpc] >>
       ELSE
           /\ calls' = << >>
           /\ UNCHANGED channels
    /\ ret' = Ret("shutdown_span_stream", "None", 0)
    /\ UNCHANGED <<threads, settings, session, _protocol, _otlp_protocol, _rpc, configuration>>

(***************************************************************************)
(* The two payload methods the serverless variant overrides.               *)
(***************************************************************************)
SendCall(protocol, endpoint, payload, outcome) ==
    [on |-> protocol, method |-> "send", endpoint |-> endpoint, payload |-> payload,
     outcome |-> outcome]

\* Session.get_agent_commands (default and developer-mode sessions).
Session_get_agent_commands ==
    /\ Runs("Session", "get_agent_commands")
    /\ args' = << >>
    /\ \E outcome \in SendOutcomes :
          /\ calls' = << SendCall("_protocol", "get_agent_commands",
                                  <<configuration.agent_run_id>>, outcome) >>
          /\ ret' = SendReturn("get_agent_commands", outcome)
    /\ UNCHANGED <<threads, settings, session, _protocol, _otlp_protocol, _rpc,
                   configuration, channels>>

\* ServerlessModeSession.get_agent_commands: return ()
ServerlessModeSession_get_agent_commands ==
    /\ Runs("ServerlessModeSession", "get_agent_commands")
    /\ args' = << >>
    /\ calls' = << >>
    /\ ret' = Ret("get_agent_commands", "empty_tuple", 0)
    /\ UNCHANGED <<threads, settings, session, _protocol, _otlp_protocol, _rpc,
                   configuration, channels>>

\* Session.shutdown_session (default and developer-mode sessions).
Session_shutdown_session ==
    /\ Runs("Session", "shutdown_session")
    /\ args' = << >>
    /\ \E outcome \in SendOutcomes :
          /\ calls' = << SendCall("_protocol", "shutdown",
                                  <<configuration.agent_run_id>>, outcome) >>
          /\ ret' = SendReturn("shutdown_session", outcome)
    /\ UNCHANGED <<threads, settings, session, _protocol, _otlp_protocol, _rpc,
                   configuration, channels>>

\* ServerlessModeSession.shutdown_session: pass
ServerlessModeSession_shutdown_session ==
    /\ Runs("ServerlessModeSession", "shutdown_session")
    /\ args' = << >>
    /\ calls' = << >>
    /\ ret' = Ret("shutdown_session", "None", 0)
    /\ UNCHANGED <<threads, settings, session, _protocol, _otlp_protocol, _rpc,
                   configuration, channels>>

(***************************************************************************)
(* Log events: get_log_events_common_block and send_log_events.            *)
(*                                                                         *)
(* Attribute names, label types and dictionary keys are sequences of       *)
(* one-character strings, so that str.lower() and the "tags." prefix are   *)
(* computed letter by letter.  A dict is a function from keys to values.   *)
(***************************************************************************)
\* MAX_NUM_USER_ATTRIBUTES of newrelic.core.attribute, scaled down to the
\* lists the model draws.
MAX_NUM_USER_ATTRIBUTES == 2

\* Bounds of the log-forwarding configurations the model draws: the lists of
\* custom attributes are up to one pair longer than the maximum kept.
MaxCustomAttributes == MAX_NUM_USER_ATTRIBUTES + 1
MaxLabels == 2

UpperLetters ==
    <<"A", "B", "C", "D", "E", "F", "G", "H", "I", "J", "K", "L", "M",
      "N", "O", "P", "Q", "R", "S", "T", "U", "V", "W", "X", "Y", "Z">>

LowerLetters ==
    <<"a", "b", "c", "d", "e", "f", "g", "h", "i", "j", "k", "l", "m",
      "n", "o", "p", "q", "r", "s", "t", "u", "v", "w", "x", "y", "z">>

\* str.lower() on one character.
LowerChar(c) ==
    IF \E i \in DOMAIN UpperLetters : UpperLetters[i] = c
    THEN LowerLetters[CHOOSE i \in DOMAIN UpperLetters : UpperLetters[i] = c]
    ELSE c

\* label["label_type"].lower()
Lower(str) == [i \in DOMAIN str |-> LowerChar(str[i])]

\* {}
EmptyDict == [k \in {} |-> ""]

\* d[k] = v
DictSet(d, k, v) == [x \in DOMAIN d \cup {k} |-> IF x = k THEN v ELSE d[x]]

\* d.update(e)
DictUpdate(d, e) ==
    [x \in DOMAIN d \cup DOMAIN e |-> IF x \in DOMAIN e THEN e[x] ELSE d[x]]

\* All sequences over S of length at most n.
SeqsUpTo(S, n) == UNION {[1..k -> S] : k \in 0..n}

\* The key process_user_attribute returns for a pair it rejects (None).
NoneKey == <<"None">>

\* Attribute names: three that normalization accepts, one it rejects, and one
\* on which it faults.
RejectedNames == { <<"l", "o", "n", "g">> }
FaultNames == { <<"b", "o", "o", "m">> }
AttributeNames ==
    { <<"k", "1">>, <<"k", "2">>, <<"k", "3">> } \cup RejectedNames \cup FaultNames
AttributeValues == {"v"}

\* process_user_attribute(name, value): (name, value) when the pair is
\* accepted, (None, None) when it is rejected; `raises` when it faults.
process_user_attribute(name, value) ==
    [raises |-> name \in FaultNames,
     key |-> IF name \in RejectedNames THEN NoneKey ELSE name,
     val |-> IF name \in RejectedNames THEN "None" ELSE value]

\* The loop stopping one pair late: `>` where the code has `>=`.
RECURSIVE CustomAttributesFrom_OffByOne(_, _, _)
CustomAttributesFrom_OffByOne(pairs, i, acc) ==
    IF i > Len(pairs) THEN [raised |-> FALSE, dict |-> acc]
    ELSE IF Cardinality(DOMAIN acc) > MAX_NUM_USER_ATTRIBUTES
    THEN [raised |-> FALSE, dict |-> acc]
    ELSE LET r == process_user_attribute(pairs[i][1], pairs[i][2])
         IN  IF r.raises THEN [raised |-> TRUE, dict |-> acc]
             ELSE CustomAttributesFrom_OffByOne(pairs, i + 1,
                      IF r.key # NoneKey THEN DictSet(acc, r.key, r.val) ELSE acc)

\* The loop over forwarding.custom_attributes from pair i on, custom_attributes
\* being acc so far: [raised, dict].
RECURSIVE CustomAttributesFrom(_, _, _)
CustomAttributesFrom(pairs, i, acc) ==
    IF i > Len(pairs) THEN [raised |-> FALSE, dict |-> acc]
    ELSE IF Cardinality(DOMAIN acc) >= MAX_NUM_USER_ATTRIBUTES
    THEN [raised |-> FALSE, dict |-> acc]
    ELSE LET r == process_user_attribute(pairs[i][1], pairs[i][2])
         IN  IF r.raises THEN [raised |-> TRUE, dict |-> acc]
             ELSE CustomAttributesFrom(pairs, i + 1,
                      IF r.key # NoneKey THEN DictSet(acc, r.key, r.val) ELSE acc)

\* Labels: a label is a dict with the keys label_type and label_value; a
\* malformed one has no label_type, and reading it raises KeyError.
LabelTypes == { <<"e", "n">>, <<"E", "n">>, <<"t", "m">> }
LabelValues == {"x"}
MalformedLabel == [label_value |-> "x"]
Labels == [label_type : LabelTypes, label_value : LabelValues] \cup {MalformedLabel}

\* forwarding.labels.exclude: no list, or a list of one entry.
Excludes == { {}, { <<"e", "n">> }, { <<"E", "n">> } }

\* The tag key without its "tags." prefix.
TagKey_NoPrefix(label_type) == label_type

\* f"tags.{label['label_type']}"
TagKey(label_type) == <<"t", "a", "g", "s", ".">> \o label_type

\* label["label_type"].lower() not in forwarding.labels.exclude
NotExcluded(label_type, exclude) == Lower(label_type) \notin exclude

\* The dict comprehension over labels from label i on, the dict being acc so
\* far; filter: whether the `if ... not in exclude` clause is present.
RECURSIVE TagsFrom(_, _, _, _, _)
TagsFrom(labels, i, filter, exclude, acc) ==
    IF i > Len(labels) THEN [raised |-> FALSE, dict |-> acc]
    ELSE IF "label_type" \notin DOMAIN labels[i] THEN [raised |-> TRUE, dict |-> acc]
    ELSE TagsFrom(labels, i + 1, filter, exclude,
             IF filter /\ ~NotExcluded(labels[i].label_type, exclude)
             THEN acc
             ELSE DictSet(acc, TagKey(labels[i].label_type), labels[i].label_value))

\* The try block of get_log_events_common_block: [raised, dict], dict being
\* `common` where the block ends or raises.
CommonBlockTry(conf) ==
    LET custom == IF Len(conf.custom_attributes) > 0
                  THEN CustomAttributesFrom(conf.custom_attributes, 1, EmptyDict)
                  ELSE [raised |-> FALSE, dict |-> EmptyDict]
        common == DictUpdate(EmptyDict, custom.dict)
    IN  IF custom.raised THEN [raised |-> TRUE, dict |-> EmptyDict]
        ELSE IF Len(conf.labels) = 0 \/ ~conf.labels_enabled
        THEN [raised |-> FALSE, dict |-> common]
        ELSE LET tags == TagsFrom(conf.labels, 1, conf.labels_exclude # {},
                                  conf.labels_exclude, EmptyDict)
             IN  IF tags.raised THEN [raised |-> TRUE, dict |-> common]
                 ELSE [raised |-> FALSE, dict |-> DictUpdate(common, tags.dict)]

\* An except clause returning `common` as built so far instead of {}.
CommonBlock_KeepsPartial(conf) == CommonBlockTry(conf).dict

\* What get_log_events_common_block returns: {} from the except clause.
CommonBlock(conf) ==
    LET try == CommonBlockTry(conf)
    IN  IF try.raised THEN EmptyDict ELSE try.dict

\* The names the loop over custom_attributes has put in its dict when it
\* comes to pair i, no pair before i having faulted.
KeysBefore(pairs, i) ==
    { pairs[j][1] : j \in { j \in 1..(i - 1) :
                              pairs[j][1] \notin RejectedNames \cup FaultNames } }

\* The number of pairs before pair i that normalization accepts.
AcceptedBefore(pairs, i) ==
    Cardinality({ j \in 1..(i - 1) :
                    pairs[j][1] \notin RejectedNames \cup FaultNames })

\* The loop normalizes a pair on which process_user_attribute faults: the
\* dict holds fewer than the maximum number of keys when the loop comes to it.
CustomFault(conf) ==
    \E i \in DOMAIN conf.custom_attributes :
        /\ conf.custom_attributes[i][1] \in FaultNames
        /\ Cardinality(KeysBefore(conf.custom_attributes, i)) < MAX_NUM_USER_ATTRIBUTES

\* `if not labels or not forwarding.labels.enabled: return common` is passed.
LabelsRead(conf) == Len(conf.labels) > 0 /\ conf.labels_enabled

\* The dict comprehension over labels is run and reads a label that has no
\* label_type.
LabelFault(conf) ==
    /\ ~CustomFault(conf)
    /\ LabelsRead(conf)
    /\ \E i \in DOMAIN conf.labels : conf.labels[i] = MalformedLabel

\* The keys of a common block that are custom-attribute names.
CustomKeys(d) == DOMAIN d \cap AttributeNames

\* Session.get_log_events_common_block
get_log_events_common_block ==
    /\ Runs("Session", "get_log_events_common_block")
    /\ args' = << >>
    /\ calls' = << >>
    /\ ret' = Ret("get_log_events_common_block", "dict", CommonBlock(configuration))
    /\ UNCHANGED <<threads, settings, session, _protocol, _otlp_protocol, _rpc,
                   configuration, channels>>

\* Log events are named tuples (timestamp, level, message, attributes).
LogEvent == <<1, "INFO", "message", "attributes">>
LogBatches == { << >>, <<LogEvent>> }

\* sampling_info, which send_log_events does not read.
SamplingInfos == {"sampling_info"}

\* log._asdict()
AsDict(log) ==
    [timestamp |-> log[1], level |-> log[2], message |-> log[3], attributes |-> log[4]]

\* Mutant of LogPayload: the common block is attached also when it is empty.
LogPayload_AlwaysCommon(log_event_data, common) ==
    << [logs |-> [i \in DOMAIN log_event_data |-> AsDict(log_event_data[i])],
        common |-> [attributes |-> common]] >>

\* The log payload with the run id put before the mapping.
LogPayload_WithRunId(log_event_data, common) ==
    << AgentRunId,
       [logs |-> [i \in DOMAIN log_event_data |-> AsDict(log_event_data[i])]] >>

\* payload = ({"logs": tuple(log._asdict() for log in log_event_data)},)
\* if common: payload[0]["common"] = {"attributes": common}
LogPayload(log_event_data, common) ==
    IF DOMAIN common # {}
    THEN << [logs |-> [i \in DOMAIN log_event_data |-> AsDict(log_event_data[i])],
             common |-> [attributes |-> common]] >>
    ELSE << [logs |-> [i \in DOMAIN log_event_data |-> AsDict(log_event_data[i])]] >>

\* Session.send_log_events(sampling_info, log_event_data), Protocol.send
\* ending as outcome.
Session_send_log_events(sampling_info, log_event_data, outcome) ==
    /\ Runs("Session", "send_log_events")
    /\ args' = <<sampling_info, log_event_data>>
    /\ ret' = SendReturn("send_log_events", outcome)
    /\ UNCHANGED <<threads, settings, session, _protocol, _otlp_protocol, _rpc,
                   configuration, channels>>
    /\ calls' = << SendCall("_protocol", "log_event_data",
                            LogPayload(log_event_data, CommonBlock(configuration)),
                            outcome) >>

send_log_events ==
    \E sampling_info \in SamplingInfos, log_event_data \in LogBatches,
       outcome \in SendOutcomes :
        Session_send_log_events(sampling_info, log_event_data, outcome)

(***************************************************************************)
(* The payload methods.  Their arguments are opaque to the session: each   *)
(* is a token the payload carries on.                                      *)
(***************************************************************************)
TransactionTraces == { << >>, <<"trace">> }
Batches == {"batch"}
Times == {"t0", "t1"}

\* return self._protocol.send(endpoint, payload)
Session_send(op, arguments, endpoint, payload) ==
    /\ args' = arguments
    /\ \E outcome \in SendOutcomes :
          /\ calls' = << SendCall("_protocol", endpoint, payload, outcome) >>
          /\ ret' = SendReturn(op, outcome)
    /\ UNCHANGED <<threads, settings, session, _protocol, _otlp_protocol, _rpc,
                   configuration, channels>>

\* self._otlp_protocol.send(endpoint, payload, path=path)
OtlpSendCall(endpoint, payload, path, outcome) ==
    [on |-> "_otlp_protocol", method |-> "send", endpoint |-> endpoint,
     payload |-> payload, path |-> path, outcome |-> outcome]

\* return self._otlp_protocol.send(endpoint, payload, path=path)
Session_otlp_send(op, arguments, endpoint, payload, path) ==
    /\ args' = arguments
    /\ \E outcome \in SendOutcomes :
          /\ calls' = << OtlpSendCall(endpoint, payload, path, outcome) >>
          /\ ret' = SendReturn(op, outcome)
    /\ UNCHANGED <<threads, settings, session, _protocol, _otlp_protocol, _rpc,
                   configuration, channels>>

\* encode_ml_event_data(custom_event_data, agent_run_id) of
\* newrelic.core.otlp_utils: the OTLP message made of its two arguments.
encode_ml_event_data(custom_event_data, agent_run_id) ==
    [encoder |-> "encode_ml_event_data", custom_event_data |-> custom_event_data,
     agent_run_id |-> agent_run_id]

\* encode_metric_data(metric_data, start_time, end_time) of
\* newrelic.core.otlp_utils: the OTLP message made of its three arguments.
encode_metric_data(metric_data, start_time, end_time) ==
    [encoder |-> "encode_metric_data", metric_data |-> metric_data,
     start_time |-> start_time, end_time |-> end_time]

\* send_transaction_traces without its `if not transaction_traces: return`.
send_transaction_traces_SendsEmpty ==
    /\ Runs("Session", "send_transaction_traces")
    /\ \E transaction_traces \in TransactionTraces :
          Session_send("send_transaction_traces", <<transaction_traces>>,
                       "transaction_sample_data",
                       <<configuration.agent_run_id, transaction_traces>>)

\* Session.send_transaction_traces
send_transaction_traces ==
    /\ Runs("Session", "send_transaction_traces")
    /\ \E transaction_traces \in TransactionTraces :
          IF Len(transaction_traces) = 0
          THEN /\ args' = <<transaction_traces>>
               /\ calls' = << >>
               /\ ret' = Ret("send_transaction_traces", "None", 0)
               /\ UNCHANGED <<threads, settings, session, _protocol, _otlp_protocol, _rpc,
                              configuration, channels>>
          ELSE Session_send("send_transaction_traces", <<transaction_traces>>,
                            "transaction_sample_data",
                            <<configuration.agent_run_id, transaction_traces>>)

\* Session.send_transaction_events
send_transaction_events ==
    /\ Runs("Session", "send_transaction_events")
    /\ \E sampling_info \in SamplingInfos, sample_set \in Batches :
          Session_send("send_transaction_events", <<sampling_info, sample_set>>,
                       "analytic_event_data",
                       <<configuration.agent_run_id, sampling_info, sample_set>>)

\* Session.send_custom_events
send_custom_events ==
    /\ Runs("Session", "send_custom_events")
    /\ \E sampling_info \in SamplingInfos, custom_event_data \in Batches :
          Session_send("send_custom_events", <<sampling_info, custom_event_data>>,
                       "custom_event_data",
                       <<configuration.agent_run_id, sampling_info, custom_event_data>>)

\* send_ml_events sending through the primary protocol.
send_ml_events_ThroughPrimary ==
    /\ Runs("Session", "send_ml_events")
    /\ \E sampling_info \in SamplingInfos, custom_event_data \in Batches :
          Session_send("send_ml_events", <<sampling_info, custom_event_data>>,
                       "ml_event_data",
                       encode_ml_event_data(custom_event_data,
                                            configuration.agent_run_id))

\* Session.send_ml_events; str(self.agent_run_id) is the run id, a str already.
send_ml_events ==
    /\ Runs("Session", "send_ml_events")
    /\ \E sampling_info \in SamplingInfos, custom_event_data \in Batches :
          Session_otlp_send("send_ml_events", <<sampling_info, custom_event_data>>,
                            "ml_event_data",
                            encode_ml_event_data(custom_event_data,
                                                 configuration.agent_run_id),
                            "/v1/logs")

\* Session.send_span_events
send_span_events ==
    /\ Runs("Session", "send_span_events")
    /\ \E sampling_info \in SamplingInfos, span_event_data \in Batches :
          Session_send("send_span_events", <<sampling_info, span_event_data>>,
                       "span_event_data",
                       <<configuration.agent_run_id, sampling_info, span_event_data>>)

\* Session.send_metric_data
send_metric_data ==
    /\ Runs("Session", "send_metric_data")
    /\ \E start_time \in Times, end_time \in Times, metric_data \in Batches :
          Session_send("send_metric_data", <<start_time, end_time, metric_data>>,
                       "metric_data",
                       <<configuration.agent_run_id, start_time, end_time, metric_data>>)

\* Session.send_dimensional_metric_data
send_dimensional_metric_data ==
    /\ Runs("Session", "send_dimensional_metric_data")
    /\ \E start_time \in Times, end_time \in Times, metric_data \in Batches :
          Session_otlp_send("send_dimensional_metric_data",
                            <<start_time, end_time, metric_data>>,
                            "dimensional_metric_data",
                            encode_metric_data(metric_data, start_time, end_time),
                            "/v1/metrics")

\* Session.send_errors
send_errors ==
    /\ Runs("Session", "send_errors")
    /\ \E errors \in Batches :
          Session_send("send_errors", <<errors>>, "error_data",
                       <<configuration.agent_run_id, errors>>)

\* Session.send_error_events
send_error_events ==
    /\ Runs("Session", "send_error_events")
    /\ \E sampling_info \in SamplingInfos, error_data \in Batches :
          Session_send("send_error_events", <<sampling_info, error_data>>,
                       "error_event_data",
                       <<configuration.agent_run_id, sampling_info, error_data>>)

\* send_sql_traces with the run id put first in its payload.
send_sql_traces_WithRunId ==
    /\ Runs("Session", "send_sql_traces")
    /\ \E sql_traces \in Batches :
          Session_send("send_sql_traces", <<sql_traces>>, "sql_trace_data",
                       <<configuration.agent_run_id, sql_traces>>)

\* Session.send_sql_traces
send_sql_traces ==
    /\ Runs("Session", "send_sql_traces")
    /\ \E sql_traces \in Batches :
          Session_send("send_sql_traces", <<sql_traces>>, "sql_trace_data",
                       <<sql_traces>>)

\* Session.send_agent_command_results
send_agent_command_results ==
    /\ Runs("Session", "send_agent_command_results")
    /\ \E cmd_results \in Batches :
          Session_send("send_agent_command_results", <<cmd_results>>,
                       "agent_command_results",
                       <<configuration.agent_run_id, cmd_results>>)

\* Session.send_profile_data
send_profile_data ==
    /\ Runs("Session", "send_profile_data")
    /\ \E profile_data \in Batches :
          Session_send("send_profile_data", <<profile_data>>, "profile_data",
                       <<configuration.agent_run_id, profile_data>>)

\* Session.send_loaded_modules
send_loaded_modules ==
    /\ Runs("Session", "send_loaded_modules")
    /\ \E environment_info \in Batches :
          Session_send("send_loaded_modules", <<environment_info>>,
                       "update_loaded_modules", <<"Jars", environment_info>>)

\* close_connection closing the streaming channel as well.
close_connection_ClosesChannel ==
    /\ Runs("Session", "close_connection")
    /\ args' = << >>
    /\ \E outcome \in CallOutcomes :
          /\ calls' = << [on |-> "_protocol", method |-> "close_connection",
                          outcome |-> outcome] >>
          /\ ret' = Ret("close_connection", outcome, 0)
    /\ channels' = [i \in DOMAIN channels |->
                       IF i = _rpc THEN [channels[i] EXCEPT !.closed = TRUE]
                       ELSE channels[i]]
    /\ UNCHANGED <<threads, settings, session, _protocol, _otlp_protocol, _rpc,
                   configuration>>

\* Session.close_connection
close_connection ==
    /\ Runs("Session", "close_connection")
    /\ args' = << >>
    /\ \E outcome \in CallOutcomes :
          /\ calls' = << [on |-> "_protocol", method |-> "close_connection",
                          outcome |-> outcome] >>
          /\ ret' = Ret("close_connection", outcome, 0)
    /\ UNCHANGED <<threads, settings, session, _protocol, _otlp_protocol, _rpc,
                   configuration, channels>>

\* A finalize that also forgets the streaming channel.
finalize_DropsChannel ==
    /\ Runs("Session", "finalize")
    /\ args' = << >>
    /\ \E outcome \in CallOutcomes :
          /\ calls' = << [on |-> "_protocol", method |-> "finalize",
                          outcome |-> outcome] >>
          /\ ret' = Ret("finalize", outcome, 0)
    /\ _rpc' = None
    /\ UNCHANGED <<threads, settings, session, _protocol, _otlp_protocol,
                   configuration, channels>>

\* Session.finalize
finalize ==
    /\ Runs("Session", "finalize")
    /\ args' = << >>
    /\ \E outcome \in CallOutcomes :
          /\ calls' = << [on |-> "_protocol", method |-> "finalize",
                          outcome |-> outcome] >>
          /\ ret' = Ret("finalize", outcome, 0)
    /\ UNCHANGED <<threads, settings, session, _protocol, _otlp_protocol, _rpc,
                   configuration, channels>>

(***************************************************************************)
(* The session from create_session on.                                     *)
(***************************************************************************)
Init ==
    /\ settings \in Settings
    /\ session = "None"
    /\ _protocol = "None"
    /\ _otlp_protocol = "None"
    /\ _rpc = None
    /\ configuration = NoConfiguration
    /\ channels = << >>
    /\ args = << >>
    /\ calls = << >>
    /\ ret = Ret("None", "None", 0)
    /\ threads = NoThreads

Next ==
    \/ create_session
    \/ Reconfigure
    \/ Session_connect_span_stream
    \/ DeveloperModeSession_connect_span_stream
    \/ ServerlessModeSession_connect_span_stream
    \/ shutdown_span_stream
    \/ Session_get_agent_commands
    \/ ServerlessModeSession_get_agent_commands
    \/ Session_shutdown_session
    \/ ServerlessModeSession_shutdown_session

Spec == Init /\ [][Next]_vars

(***************************************************************************)
(* Log forwarding: a connected default session under each log-forwarding   *)
(* configuration.                                                          *)
(***************************************************************************)
LogConfigurations ==
    [trace_observer_host : {NoHost},
     trace_observer_port : Ports,
     ssl : {TRUE},
     compression : {"gzip"},
     distributed_tracing_enabled : {TRUE},
     span_events_enabled : {TRUE},
     collect_span_events : {TRUE},
     connect_span_stream_in_developer_mode : {FALSE},
     agent_run_id : {AgentRunId},
     license_key : {LicenseKey},
     custom_attributes : SeqsUpTo(AttributeNames \X AttributeValues, MaxCustomAttributes),
     labels : SeqsUpTo(Labels, MaxLabels),
     labels_enabled : BOOLEAN,
     labels_exclude : Excludes]

InitLog ==
    /\ settings = [serverless_mode_enabled |-> FALSE, developer_mode |-> FALSE]
    /\ session = SessionClass(settings)
    /\ _protocol = PROTOCOL(session)
    /\ _otlp_protocol = OTLP_PROTOCOL(session)
    /\ _rpc = None
    /\ configuration \in LogConfigurations
    /\ channels = << >>
    /\ args = << >>
    /\ calls = <<ConnectCall(PROTOCOL(session), session, TRUE),
                 ConnectCall(OTLP_PROTOCOL(session), session, TRUE)>>
    /\ ret = Ret("create_session", "session", 0)
    /\ threads = NoThreads

NextLog ==
    \/ get_log_events_common_block
    \/ send_log_events

SpecLog == InitLog /\ [][NextLog]_vars

(***************************************************************************)
(* The payload methods, the span stream and close_connection on a          *)
(* connected session of each class.                                        *)
(***************************************************************************)
SendConfigurations ==
    [trace_observer_host : {NoHost, "observer.example"},
     trace_observer_port : Ports,
     ssl : {TRUE},
     compression : {"gzip"},
     distributed_tracing_enabled : {TRUE},
     span_events_enabled : {TRUE},
     collect_span_events : {TRUE},
     connect_span_stream_in_developer_mode : {TRUE},
     agent_run_id : {AgentRunId},
     license_key : {LicenseKey},
     custom_attributes : {<< >>, << << <<"k", "1">>, "v" >> >>},
     labels : {<< >>},
     labels_enabled : {FALSE},
     labels_exclude : {{}}]

InitSend ==
    /\ settings \in Settings
    /\ session = SessionClass(settings)
    /\ _protocol = PROTOCOL(session)
    /\ _otlp_protocol = OTLP_PROTOCOL(session)
    /\ _rpc = None
    /\ configuration \in SendConfigurations
    /\ channels = << >>
    /\ args = << >>
    /\ calls = <<ConnectCall(PROTOCOL(session), session, TRUE),
                 ConnectCall(OTLP_PROTOCOL(session), session, TRUE)>>
    /\ ret = Ret("create_session", "session", 0)
    /\ threads = NoThreads

NextSend ==
    \/ Session_connect_span_stream
    \/ DeveloperModeSession_connect_span_stream
    \/ ServerlessModeSession_connect_span_stream
    \/ shutdown_span_stream
    \/ close_connection
    \/ finalize
    \/ send_transaction_traces
    \/ send_transaction_events
    \/ send_custom_events
    \/ send_ml_events
    \/ send_span_events
    \/ send_metric_data
    \/ send_dimensional_metric_data
    \/ get_log_events_common_block
    \/ send_log_events
    \/ Session_get_agent_commands
    \/ ServerlessModeSession_get_agent_commands
    \/ send_errors
    \/ send_error_events
    \/ send_sql_traces
    \/ send_agent_command_results
    \/ send_profile_data
    \/ send_loaded_modules
    \/ Session_shutdown_session
    \/ ServerlessModeSession_shutdown_session

SpecSend == InitSend /\ [][NextSend]_vars

(***************************************************************************)
(* Session.connect_span_stream called by several callers at once on one    *)
(* default session: the method takes no lock, so the callers' steps        *)
(* interleave between the test of self._rpc, the statement that constructs *)
(* and stores the channel, and rpc.connect().                              *)
(***************************************************************************)
\* Lines 55-73: the tests, the reads of the configuration and the metadata.
connect_span_stream_enter(t) ==
    /\ Runs("Session", "connect_span_stream")
    /\ threads[t].pc = "idle"
    /\ \E it \in SpanIterators, rm \in RecordMetrics :
          /\ args' = <<it, rm>>
          /\ IF CreatesChannel
             THEN /\ threads' = [threads EXCEPT ![t] =
                                    [pc |-> "construct", span_iterator |-> it,
                                     record_metric |-> rm, rpc |-> None]]
                  /\ UNCHANGED ret
             ELSE /\ ret' = Ret("connect_span_stream", "None", 0)
                  /\ UNCHANGED threads
    /\ calls' = << >>
    /\ UNCHANGED <<settings, session, _protocol, _otlp_protocol, _rpc,
                   configuration, channels>>

\* Lines 75-77: rpc = self._rpc = StreamingRpc(...)
connect_span_stream_construct(t) ==
    /\ threads[t].pc = "construct"
    /\ Len(channels) < MaxChannels
    /\ LET rpc == StreamingRpc(
                      Endpoint(configuration.trace_observer_host,
                               configuration.trace_observer_port),
                      threads[t].span_iterator, Metadata(configuration),
                      threads[t].record_metric,
                      configuration.ssl, configuration.compression)
           id == Len(channels) + 1
       IN  /\ channels' = Append(channels, rpc)
           /\ _rpc' = id
           /\ threads' = [threads EXCEPT ![t].pc = "connect", ![t].rpc = id]
           /\ calls' = << [on |-> "StreamingRpc", method |-> "__init__", obj |-> id] >>
    /\ UNCHANGED <<settings, session, _protocol, _otlp_protocol, configuration,
                   args, ret>>

\* Lines 78-79: rpc.connect(); return rpc
connect_span_stream_connect(t) ==
    /\ threads[t].pc = "connect"
    /\ \E connectOk \in BOOLEAN :
          /\ channels' = [channels EXCEPT
                             ![threads[t].rpc].connect_calls = @ + 1,
                             ![threads[t].rpc].connected = connectOk]
          /\ ret' = IF connectOk
                    THEN Ret("connect_span_stream", "rpc", threads[t].rpc)
                    ELSE Ret("connect_span_stream", "raise", 0)
    /\ calls' = << [on |-> "StreamingRpc", method |-> "connect",
                    obj |-> threads[t].rpc] >>
    /\ args' = <<threads[t].span_iterator, threads[t].record_metric>>
    /\ threads' = [threads EXCEPT ![t] = Idle]
    /\ UNCHANGED <<settings, session, _protocol, _otlp_protocol, _rpc,
                   configuration>>

InitThreads ==
    /\ settings = [serverless_mode_enabled |-> FALSE, developer_mode |-> FALSE]
    /\ session = SessionClass(settings)
    /\ _protocol = PROTOCOL(session)
    /\ _otlp_protocol = OTLP_PROTOCOL(session)
    /\ _rpc = None
    /\ configuration \in SendConfigurations
    /\ channels = << >>
    /\ args = << >>
    /\ calls = <<ConnectCall(PROTOCOL(session), session, TRUE),
                 ConnectCall(OTLP_PROTOCOL(session), session, TRUE)>>
    /\ ret = Ret("create_session", "session", 0)
    /\ threads = NoThreads

NextThreads ==
    \/ \E t \in Threads : connect_span_stream_enter(t)
    \/ \E t \in Threads : connect_span_stream_construct(t)
    \/ \E t \in Threads : connect_span_stream_connect(t)

SpecThreads == InitThreads /\ [][NextThreads]_vars

\* The span-stream state of section 4.2, read off the session's fields.
SpanState ==
    IF _rpc = None THEN "Absent"
    ELSE IF channels[_rpc].closed THEN "Closed"
    ELSE "Active"

(***************************************************************************)
(* Vocabulary of the properties.                                           *)
(***************************************************************************)
\* A host is configured and distributed tracing, span-event reporting and
\* span-event collection are all enabled.
FullyEnabled ==
    /\ configuration.trace_observer_host \notin {NoHost, ""}
    /\ configuration.distributed_tracing_enabled = TRUE
    /\ configuration.span_events_enabled = TRUE
    /\ configuration.collect_span_events = TRUE

\* The positions in the call log cs of the calls of `method` on a StreamingRpc.
RpcCalls(cs, method) ==
    {i \in DOMAIN cs : cs[i].on = "StreamingRpc" /\ cs[i].method = method}

\* The positions in the call log cs of the Protocol.send calls.
SendCalls(cs) == {i \in DOMAIN cs : cs[i].method = "send"}

\* The methods of Session that end in a Protocol.send.
SendMethods ==
    {"send_transaction_traces", "send_transaction_events",
     "send_custom_events", "send_ml_events", "send_span_events",
     "send_metric_data", "send_dimensional_metric_data",
     "send_log_events", "get_agent_commands", "send_errors",
     "send_error_events", "send_sql_traces",
     "send_agent_command_results", "send_profile_data",
     "send_loaded_modules", "shutdown_session"}

\* A call of connect_span_stream, whichever class defines it.
ConnectSpanStreamCall ==
    \/ Session_connect_span_stream
    \/ DeveloperModeSession_connect_span_stream
    \/ ServerlessModeSession_connect_span_stream

(***************************************************************************)
(* Properties.                                                             *)
(***************************************************************************)

\* C1: over any sequence of connect_span_stream and shutdown_span_stream
\* calls on one session (any variant, any configuration at each call) at most
\* one StreamingRpc is ever constructed; once one is stored in self._rpc it is
\* never replaced, and every later connect_span_stream call constructs
\* nothing and calls connect() on nothing.
C1_AtMostOneChannel ==
    /\ [](Len(channels) <= 1)
    /\ [][ /\ (_rpc # None => _rpc' = _rpc /\ Len(channels') = Len(channels))
           /\ (_rpc # None /\ ConnectSpanStreamCall =>
                  /\ RpcCalls(calls', "__init__") = {}
                  /\ RpcCalls(calls', "connect") = {}
                  /\ channels'[_rpc].connect_calls = channels[_rpc].connect_calls)
         ]_vars

\* C1 witness: connect_span_stream has been called on a session that already
\* held its channel, under a fully enabled configuration, and did nothing.
C1_Witness ==
    /\ _rpc # None
    /\ Len(channels) = 1
    /\ FullyEnabled
    /\ ret.op = "connect_span_stream"
    /\ calls = << >>

\* C2: Closed is terminal.  Once shutdown_span_stream has closed the stored
\* channel, every step leaves the session Closed with the same channel, and a
\* connect_span_stream call constructs nothing and calls connect() on nothing.
C2_ClosedIsTerminal ==
    [][ SpanState = "Closed" =>
           /\ SpanState' = "Closed"
           /\ _rpc' = _rpc
           /\ Len(channels') = Len(channels)
           /\ channels'[_rpc].connect_calls = channels[_rpc].connect_calls
           /\ (ConnectSpanStreamCall =>
                  /\ RpcCalls(calls', "__init__") = {}
                  /\ RpcCalls(calls', "connect") = {})
      ]_vars

\* C2 witness: connect_span_stream has been called, fully enabled, on a default
\* session whose channel had been closed; the session is still Closed.
C2_Witness ==
    /\ session = "Session"
    /\ SpanState = "Closed"
    /\ FullyEnabled
    /\ ret.op = "connect_span_stream"
    /\ calls = << >>

\* C3 as claimed: a shutdown_span_stream made while no channel exists closes
\* the span stream for good, so that the connect_span_stream call that
\* follows it on a default session, fully enabled, creates no channel.
C3_ShutdownWhileAbsentBlocksConnect ==
    [][ ( /\ session = "Session"
          /\ _rpc = None
          /\ ret.op = "shutdown_span_stream"
          /\ FullyEnabled
          /\ Session_connect_span_stream )
        => (_rpc' = None /\ channels' = channels)
      ]_vars

\* C3 as amended: a shutdown_span_stream made while no channel exists calls
\* nothing, raises nothing and leaves the session Absent; the
\* connect_span_stream call that follows it on a default session, fully
\* enabled, constructs the channel, stores it and calls connect() on it.
C3_ShutdownWhileAbsentIsNoOp ==
    [][ /\ ( (_rpc = None /\ shutdown_span_stream) =>
                /\ UNCHANGED <<_rpc, channels>>
                /\ SpanState' = "Absent"
                /\ calls' = << >>
                /\ ret' = Ret("shutdown_span_stream", "None", 0) )
        /\ ( ( /\ session = "Session"
               /\ _rpc = None
               /\ ret = Ret("shutdown_span_stream", "None", 0)
               /\ FullyEnabled
               /\ Session_connect_span_stream )
             => /\ _rpc' # None
                /\ Len(channels') = 1
                /\ channels'[_rpc'].connect_calls = 1
                /\ RpcCalls(calls', "connect") # {} )
      ]_vars

\* C3 witness: shutdown_span_stream has returned on a default session that
\* holds no channel, and the configuration is fully enabled.
C3_Witness ==
    /\ session = "Session"
    /\ _rpc = None
    /\ ret = Ret("shutdown_span_stream", "None", 0)
    /\ calls = << >>
    /\ FullyEnabled

\* C4: on a default session with no channel, connect_span_stream creates no
\* channel, returns nothing and leaves the session Absent whenever the host is
\* empty or unset, and whenever any one of the three flags is disabled.
C4_NoChannelUnlessEnabled ==
    [][ ( /\ session = "Session"
          /\ _rpc = None
          /\ \/ configuration.trace_observer_host \in {NoHost, ""}
             \/ ~configuration.distributed_tracing_enabled
             \/ ~configuration.span_events_enabled
             \/ ~configuration.collect_span_events
          /\ Session_connect_span_stream )
        => /\ _rpc' = None
           /\ channels' = channels
           /\ SpanState' = "Absent"
           /\ calls' = << >>
           /\ ret' = Ret("connect_span_stream", "None", 0)
      ]_vars

\* C4 witness: connect_span_stream has returned nothing on a default session
\* whose host is set and whose only disabled flag is collect_span_events.
C4_Witness ==
    /\ session = "Session"
    /\ _rpc = None
    /\ configuration.trace_observer_host = "observer.example"
    /\ configuration.distributed_tracing_enabled
    /\ configuration.span_events_enabled
    /\ ~configuration.collect_span_events
    /\ ret = Ret("connect_span_stream", "None", 0)

\* C5: on a default session with no channel and a fully enabled
\* configuration, connect_span_stream constructs exactly one channel for
\* endpoint host:port with metadata ((agent_run_token, run id), (license_key,
\* license key)) in that order, calls connect() on it exactly once, leaves the
\* session Active and, when it returns, returns that channel.
C5_CreatesConnectsReturns ==
    [][ ( /\ session = "Session"
          /\ _rpc = None
          /\ FullyEnabled
          /\ Session_connect_span_stream )
        => /\ Len(channels') = Len(channels) + 1
           /\ _rpc' = Len(channels')
           /\ channels'[_rpc'].endpoint = "observer.example:443"
           /\ channels'[_rpc'].metadata =
                  << <<"agent_run_token", "run-1">>, <<"license_key", "license-1">> >>
           /\ channels'[_rpc'].connect_calls = 1
           /\ RpcCalls(calls', "__init__") = {1}
           /\ RpcCalls(calls', "connect") = {2}
           /\ calls'[1].obj = _rpc' /\ calls'[2].obj = _rpc'
           /\ SpanState' = "Active"
           /\ ret'.kind \in {"rpc", "raise"}
           /\ (ret'.kind = "rpc" => ret'.value = _rpc')
           /\ (channels'[_rpc'].connected => ret'.kind = "rpc")
      ]_vars

\* C5 witness: connect_span_stream has just created, connected and returned
\* the channel of a default session.
C5_Witness ==
    /\ session = "Session"
    /\ _rpc = 1
    /\ SpanState = "Active"
    /\ channels[1].connected
    /\ Len(calls) = 2
    /\ ret = Ret("connect_span_stream", "rpc", 1)

\* C6: create_session returns the serverless variant whenever serverless mode
\* is enabled, the developer variant when developer mode is enabled and
\* serverless mode is not, the default variant when neither is; a call that
\* returns produces one session of one of the three classes, a call that
\* raises produces none.
C6_VariantBySettings ==
    /\ (ret.op = "create_session" => (ret.kind = "session" <=> session # "None"))
    /\ (session # "None" =>
          /\ session \in {"Session", "DeveloperModeSession", "ServerlessModeSession"}
          /\ (settings.serverless_mode_enabled => session = "ServerlessModeSession")
          /\ (settings.developer_mode /\ ~settings.serverless_mode_enabled
                 => session = "DeveloperModeSession")
          /\ (~settings.developer_mode /\ ~settings.serverless_mode_enabled
                 => session = "Session"))

\* C6 witness: create_session has returned with both flags set.
C6_Witness ==
    /\ settings.serverless_mode_enabled
    /\ settings.developer_mode
    /\ ret = Ret("create_session", "session", 0)
    /\ session = "ServerlessModeSession"

\* C7: on a developer-mode session a channel is created only when
\* debug.connect_span_stream_in_developer_mode is true; with the flag false
\* every connect_span_stream call constructs nothing, calls nothing, returns
\* nothing and leaves the state as it was, also when fully enabled.
C7_DeveloperGate ==
    [][ /\ ( ( /\ session = "DeveloperModeSession"
               /\ ~configuration.connect_span_stream_in_developer_mode
               /\ DeveloperModeSession_connect_span_stream )
             => /\ UNCHANGED <<_rpc, channels>>
                /\ calls' = << >>
                /\ ret' = Ret("connect_span_stream", "None", 0) )
        /\ ( (session = "DeveloperModeSession" /\ Len(channels') > Len(channels))
             => configuration.connect_span_stream_in_developer_mode )
      ]_vars

\* C7 witness: connect_span_stream has been called on a developer-mode
\* session, fully enabled but with the debug flag false; no channel exists.
C7_Witness ==
    /\ session = "DeveloperModeSession"
    /\ ~configuration.connect_span_stream_in_developer_mode
    /\ FullyEnabled
    /\ ret = Ret("connect_span_stream", "None", 0)
    /\ calls = << >>
    /\ _rpc = None
    /\ channels = << >>

\* C8 as claimed: with the debug flag true, connect_span_stream on a
\* developer-mode session is a step connect_span_stream of the default session
\* makes from the same state and configuration: same construction and
\* connect() call, same resulting state, same return value.
C8_DeveloperSameAsDefault ==
    [][ ( /\ session = "DeveloperModeSession"
          /\ configuration.connect_span_stream_in_developer_mode
          /\ DeveloperModeSession_connect_span_stream )
        => \E it \in SpanIterators, rm \in RecordMetrics, connectOk \in BOOLEAN :
              /\ Session_connect_span_stream_effect(it, rm, connectOk)
              /\ ret' = Session_connect_span_stream_return(connectOk)
      ]_vars

\* C9: on a serverless session no channel is ever constructed (the state
\* stays Absent); connect_span_stream, get_agent_commands and shutdown_session
\* call nothing, so make no Protocol.send; get_agent_commands returns ().
C9_ServerlessOverrides ==
    session = "ServerlessModeSession" =>
        /\ _rpc = None
        /\ channels = << >>
        /\ (ret.op \in {"connect_span_stream", "get_agent_commands", "shutdown_session"}
               => calls = << >>)
        /\ (ret.op = "get_agent_commands" => ret = Ret("get_agent_commands", "empty_tuple", 0))
        /\ (ret.op \in {"connect_span_stream", "shutdown_session"} => ret.kind = "None")

\* C9 witness: get_agent_commands has returned () on a serverless session
\* whose configuration is fully enabled.
C9_Witness ==
    /\ session = "ServerlessModeSession"
    /\ FullyEnabled
    /\ ret = Ret("get_agent_commands", "empty_tuple", 0)
    /\ calls = << >>

\* C10: send_log_events makes exactly one Protocol.send, on the primary
\* protocol at log_event_data, with the log records of the call, whatever
\* the common-block builder does (empty result, non-empty result, fault);
\* the payload holds common.attributes, equal to the builder's mapping, if
\* and only if the builder produced a non-empty mapping; the call ends as
\* Protocol.send does.
C10_LogEventsAlwaysSent ==
    ret.op = "send_log_events" =>
        /\ Len(calls) = 1
        /\ calls[1].on = "_protocol"
        /\ calls[1].method = "send"
        /\ calls[1].endpoint = "log_event_data"
        /\ Len(calls[1].payload) = 1
        /\ Len(calls[1].payload[1].logs) = Len(args[2])
        /\ \A i \in DOMAIN args[2] :
              /\ calls[1].payload[1].logs[i].timestamp = args[2][i][1]
              /\ calls[1].payload[1].logs[i].level = args[2][i][2]
              /\ calls[1].payload[1].logs[i].message = args[2][i][3]
              /\ calls[1].payload[1].logs[i].attributes = args[2][i][4]
        /\ LET try == CommonBlockTry(configuration)
               built == CommonBlock(configuration)
           IN  /\ ("common" \in DOMAIN calls[1].payload[1] <=> DOMAIN built # {})
               /\ (try.raised => "common" \notin DOMAIN calls[1].payload[1])
               /\ ("common" \in DOMAIN calls[1].payload[1]
                      => calls[1].payload[1].common = [attributes |-> built])
        /\ ret.kind \in SendOutcomes

\* C10 witness: send_log_events has sent one record while the builder
\* faulted on a label after accepting a custom attribute; the payload has
\* the record and no common block.
C10_Witness ==
    /\ ret.op = "send_log_events"
    /\ Len(args[2]) = 1
    /\ Len(configuration.custom_attributes) > 0
    /\ CommonBlockTry(configuration).raised
    /\ DOMAIN CommonBlockTry(configuration).dict # {}
    /\ Len(calls) = 1
    /\ calls[1].method = "send"
    /\ Len(calls[1].payload[1].logs) = 1
    /\ DOMAIN calls[1].payload[1] = {"logs"}

\* C11: get_log_events_common_block never propagates an exception: it always
\* returns a mapping, and when a step of the builder faults (normalizing a
\* custom attribute, or reading a label) the mapping is empty, the attributes
\* accepted before the fault being discarded with it.
C11_FaultGivesEmptyBlock ==
    ret.op = "get_log_events_common_block" =>
        /\ ret.kind = "dict"
        /\ (CustomFault(configuration) \/ LabelFault(configuration))
               => DOMAIN ret.value = {}

\* C11 witness: the builder accepted a custom attribute, then faulted on a
\* label, and returned the empty mapping.
C11_Witness ==
    /\ ret.op = "get_log_events_common_block"
    /\ LabelFault(configuration)
    /\ \E i \in DOMAIN configuration.custom_attributes :
           configuration.custom_attributes[i][1] \notin RejectedNames \cup FaultNames
    /\ ret.kind = "dict"
    /\ DOMAIN ret.value = {}

\* C12 as claimed: with an exclusion list present, a label's tag is omitted
\* whenever its type matches an exclusion-list entry ignoring letter case, in
\* any letter case of the type and of the entry, and every label whose type
\* matches no entry is added as tags.<label_type>.
C12_ExcludeIgnoresCase ==
    (/\ ret.op = "get_log_events_common_block"
     /\ ~CustomFault(configuration)
     /\ ~LabelFault(configuration)
     /\ LabelsRead(configuration)
     /\ configuration.labels_exclude # {})
    => \A i \in DOMAIN configuration.labels :
          LET label == configuration.labels[i]
              key == <<"t", "a", "g", "s", ".">> \o label.label_type
              matches == \E e \in configuration.labels_exclude :
                             Lower(e) = Lower(label.label_type)
          IN  /\ matches => key \notin DOMAIN ret.value
              /\ ~matches => /\ key \in DOMAIN ret.value
                              /\ ret.value[key] = label.label_value

\* C13 as claimed: once the number of pairs normalization has accepted has
\* reached the maximum, every remaining pair is discarded without an error.
C13_StopsAtAcceptedPairCount ==
    (/\ ret.op = "get_log_events_common_block"
     /\ ~LabelsRead(configuration))
    => \A i \in DOMAIN configuration.custom_attributes :
          (/\ AcceptedBefore(configuration.custom_attributes, i)
                  >= MAX_NUM_USER_ATTRIBUTES
           /\ \A j \in 1..(i - 1) :
                  configuration.custom_attributes[j][1] \notin FaultNames)
          => CustomKeys(ret.value) = KeysBefore(configuration.custom_attributes, i)

\* C13: the common block holds at most the maximum number of custom-attribute
\* keys for any list of pairs; when the builder does not fault its keys are
\* the names of the pairs normalization accepts that the loop reaches while
\* its dict holds fewer than the maximum number of distinct keys: rejected
\* pairs are not counted, and the pairs after the maximum is reached are
\* discarded, those on which normalization would fault included.
C13_AtMostMaxKeys ==
    ret.op = "get_log_events_common_block" =>
        LET pairs == configuration.custom_attributes
        IN  /\ Cardinality(CustomKeys(ret.value)) <= MAX_NUM_USER_ATTRIBUTES
            /\ (~CustomFault(configuration) /\ ~LabelFault(configuration))
                   => CustomKeys(ret.value) =
                        { pairs[i][1] : i \in { i \in DOMAIN pairs :
                            /\ pairs[i][1] \notin RejectedNames \cup FaultNames
                            /\ Cardinality(KeysBefore(pairs, i))
                                   < MAX_NUM_USER_ATTRIBUTES } }

\* C13 witness: the block holds the maximum number of keys and a later pair
\* that normalization accepts has been discarded.
C13_Witness ==
    /\ ret.op = "get_log_events_common_block"
    /\ Cardinality(CustomKeys(ret.value)) = MAX_NUM_USER_ATTRIBUTES
    /\ \E i \in DOMAIN configuration.custom_attributes :
           /\ Cardinality(KeysBefore(configuration.custom_attributes, i))
                  = MAX_NUM_USER_ATTRIBUTES
           /\ configuration.custom_attributes[i][1] \notin RejectedNames \cup FaultNames
           /\ configuration.custom_attributes[i][1] \notin DOMAIN ret.value

C15_TransactionTraces ==
    ret.op = "send_transaction_traces" =>
        IF Len(args[1]) = 0
        THEN /\ calls = << >>
             /\ ret.kind = "None"
        ELSE /\ Len(calls) = 1
             /\ calls[1].on = "_protocol"
             /\ calls[1].method = "send"
             /\ calls[1].endpoint = "transaction_sample_data"
             /\ calls[1].payload = <<configuration.agent_run_id, args[1]>>
             /\ ret.kind = calls[1].outcome

\* C15 witness: send_transaction_traces was called with an empty collection
\* and called nothing.
C15_Witness ==
    /\ ret.op = "send_transaction_traces"
    /\ args = << << >> >>
    /\ calls = << >>
    /\ ret.kind = "None"

\* C16 as claimed: send_log_events sends to the primary protocol an ordered
\* payload holding the run id followed by the method's arguments.
C16_LogPayloadHasRunId ==
    ret.op = "send_log_events" =>
        /\ Len(calls) = 1
        /\ calls[1].on = "_protocol"
        /\ calls[1].method = "send"
        /\ Len(calls[1].payload) = 1 + Len(args)

\* C16: send_log_events makes one send on the primary protocol at
\* log_event_data whose payload is a single mapping: the records under
\* "logs", the common block under "common" when it is not empty, and neither
\* the run id nor sampling_info; it returns what that send returns.
C16_LogPayloadIsOneMapping ==
    ret.op = "send_log_events" =>
        /\ Len(calls) = 1
        /\ calls[1].on = "_protocol"
        /\ calls[1].method = "send"
        /\ calls[1].endpoint = "log_event_data"
        /\ Len(calls[1].payload) = 1
        /\ "logs" \in DOMAIN calls[1].payload[1]
        /\ DOMAIN calls[1].payload[1] \subseteq {"logs", "common"}
        /\ Len(calls[1].payload[1].logs) = Len(args[2])
        /\ ret.kind = calls[1].outcome

\* C16 witness: send_log_events has sent one record and a common block.
C16_Witness ==
    /\ ret.op = "send_log_events"
    /\ Len(args[2]) = 1
    /\ Len(calls) = 1
    /\ Len(calls[1].payload) = 1
    /\ DOMAIN calls[1].payload[1] = {"logs", "common"}

\* C17: on a default session each method of the payload table makes exactly
\* one Protocol.send, on the primary protocol, with the endpoint name and the
\* payload of its row (the run id first where the row has one; SQL traces and
\* loaded modules without it), and returns what that send returns.
C17_PayloadTable ==
    LET rid == configuration.agent_run_id
        Row == [send_transaction_events |->
                    [endpoint |-> "analytic_event_data", run_id |-> TRUE],
                send_custom_events |->
                    [endpoint |-> "custom_event_data", run_id |-> TRUE],
                send_span_events |->
                    [endpoint |-> "span_event_data", run_id |-> TRUE],
                send_metric_data |->
                    [endpoint |-> "metric_data", run_id |-> TRUE],
                get_agent_commands |->
                    [endpoint |-> "get_agent_commands", run_id |-> TRUE],
                send_errors |->
                    [endpoint |-> "error_data", run_id |-> TRUE],
                send_error_events |->
                    [endpoint |-> "error_event_data", run_id |-> TRUE],
                send_sql_traces |->
                    [endpoint |-> "sql_trace_data", run_id |-> FALSE],
                send_agent_command_results |->
                    [endpoint |-> "agent_command_results", run_id |-> TRUE],
                send_profile_data |->
                    [endpoint |-> "profile_data", run_id |-> TRUE],
                send_loaded_modules |->
                    [endpoint |-> "update_loaded_modules", run_id |-> FALSE],
                shutdown_session |->
                    [endpoint |-> "shutdown", run_id |-> TRUE]]
    IN  (session = "Session" /\ ret.op \in DOMAIN Row) =>
            /\ Len(calls) = 1
            /\ calls[1].on = "_protocol"
            /\ calls[1].method = "send"
            /\ calls[1].endpoint = Row[ret.op].endpoint
            /\ calls[1].payload =
                   IF Row[ret.op].run_id THEN <<rid>> \o args
                   ELSE IF ret.op = "send_loaded_modules" THEN <<"Jars">> \o args
                   ELSE args
            /\ ret.kind = calls[1].outcome

\* C17 witness: a default session has sent metric data with different start
\* and end times and returned the collector's response.
C17_Witness ==
    /\ session = "Session"
    /\ ret.op = "send_metric_data"
    /\ args[1] # args[2]
    /\ Len(calls) = 1
    /\ calls[1].payload = <<AgentRunId, args[1], args[2], args[3]>>
    /\ ret.kind = "commands"

\* C18: send_ml_events and send_dimensional_metric_data each make exactly
\* one send through the OTLP protocol, at their sub-path, and none through
\* the primary protocol; no other method sends through the OTLP protocol.
C18_OtlpOnlyForMlAndDimensional ==
    LET otlp == { i \in SendCalls(calls) : calls[i].on = "_otlp_protocol" }
        primary == { i \in SendCalls(calls) : calls[i].on = "_protocol" }
    IN  /\ ret.op = "send_ml_events" =>
               /\ otlp = {1}
               /\ primary = {}
               /\ Len(calls) = 1
               /\ calls[1].endpoint = "ml_event_data"
               /\ calls[1].path = "/v1/logs"
               /\ calls[1].payload =
                      encode_ml_event_data(args[2], configuration.agent_run_id)
        /\ ret.op = "send_dimensional_metric_data" =>
               /\ otlp = {1}
               /\ primary = {}
               /\ Len(calls) = 1
               /\ calls[1].endpoint = "dimensional_metric_data"
               /\ calls[1].path = "/v1/metrics"
               /\ calls[1].payload = encode_metric_data(args[3], args[1], args[2])
        /\ ret.op \notin {"send_ml_events", "send_dimensional_metric_data"} =>
               otlp = {}

\* C18 witness: dimensional metrics went through the OTLP protocol at
\* /v1/metrics.
C18_Witness ==
    /\ ret.op = "send_dimensional_metric_data"
    /\ Len(calls) = 1
    /\ calls[1].on = "_otlp_protocol"
    /\ calls[1].path = "/v1/metrics"
    /\ args[1] # args[2]

\* C19: close_connection only delegates close_connection to the primary
\* protocol: it calls nothing on the streaming channel or the OTLP protocol
\* and leaves the span-stream state and both protocol handles as they were,
\* at every call; a shutdown_span_stream made after it still calls close()
\* on the existing channel.
C19_CloseConnectionOnlyPrimary ==
    /\ [](ret.op = "close_connection" =>
             calls = << [on |-> "_protocol", method |-> "close_connection",
                         outcome |-> ret.kind] >>)
    /\ [][ /\ ret'.op = "close_connection" =>
                 UNCHANGED <<_rpc, channels, _protocol, _otlp_protocol>>
           /\ (ret.op = "close_connection" /\ ret'.op = "shutdown_span_stream"
                  /\ _rpc # None) =>
                 /\ calls' = << [on |-> "StreamingRpc", method |-> "close",
                                 obj |-> _rpc] >>
                 /\ channels'[_rpc].closed
         ]_vars

\* C19 witness: close_connection was called on a session whose channel is
\* active, and the channel is still active.
C19_Witness ==
    /\ ret.op = "close_connection"
    /\ SpanState = "Active"
    /\ Len(calls) = 1
    /\ calls[1].method = "close_connection"

\* C20: when Protocol.send fails during a send method the failure
\* propagates to the caller, that call makes no second send, and the two
\* protocol handles and the span-stream state are as they were.
C20_SendFailurePropagates ==
    /\ [](\A i \in SendCalls(calls) :
             calls[i].outcome = "raise" =>
                 /\ ret.op \in SendMethods
                 /\ ret.kind = "raise"
                 /\ SendCalls(calls) = {i})
    /\ [][ ret'.op \in SendMethods =>
              UNCHANGED <<_rpc, channels, _protocol, _otlp_protocol>> ]_vars

\* C20 witness: Protocol.send failed during send_ml_events on a session that
\* holds an active channel; the exception reached the caller after one send.
C20_Witness ==
    /\ ret.op = "send_ml_events"
    /\ ret.kind = "raise"
    /\ Len(calls) = 1
    /\ calls[1].outcome = "raise"
    /\ SpanState = "Active"

\* C21: Session construction connects the primary protocol and then the OTLP
\* protocol, each at most once, the OTLP connect only after the primary
\* connect has succeeded; a connect that fails propagates and no session is
\* produced.  A session that exists holds both protocols, and a session just
\* constructed has connected both and holds no channel.
C21_ConstructionConnectsBoth ==
    /\ ret.op = "create_session" =>
          LET cls == SessionClass(settings)
          IN  /\ Len(calls) \in {1, 2}
              /\ \A i \in DOMAIN calls : calls[i].method = "connect"
              /\ calls[1].on = PROTOCOL(cls)
              /\ Len(calls) = 2 => (calls[2].on = OTLP_PROTOCOL(cls) /\ calls[1].ok)
              /\ (\E i \in DOMAIN calls : ~calls[i].ok)
                    => (ret.kind = "raise" /\ session = "None")
              /\ (\A i \in DOMAIN calls : calls[i].ok)
                    => /\ Len(calls) = 2
                       /\ ret.kind = "session"
                       /\ session = cls
                       /\ _rpc = None
                       /\ channels = << >>
    /\ session = "None" =>
          (_protocol = "None" /\ _otlp_protocol = "None" /\ _rpc = None)
    /\ session # "None" =>
          (_protocol = PROTOCOL(session) /\ _otlp_protocol = OTLP_PROTOCOL(session))

\* C21 witness: the OTLP connect failed after the primary connect had
\* succeeded; the failure propagated and there is no session.
C21_Witness ==
    /\ ret = Ret("create_session", "raise", 0)
    /\ Len(calls) = 2
    /\ calls[1].ok
    /\ ~calls[2].ok
    /\ session = "None"
    /\ _protocol = "None"

\* C22 as claimed: when several callers run connect_span_stream on one
\* default session at once, at most one StreamingRpc is constructed in every
\* interleaving.
C22_OneChannelInEveryInterleaving == Len(channels) <= 1

\* C23 as claimed: connect_span_stream stores the channel only after
\* connect() has completed on it: the session never holds a stored channel
\* on which connect() has not completed, and a call in which connect() fails
\* leaves the session with no channel.
C23_StoredOnlyAfterConnect ==
    /\ _rpc # None => channels[_rpc].connected
    /\ (ret.op = "connect_span_stream" /\ ret.kind = "raise") => _rpc = None

\* C24: a connect_span_stream call on a default session that holds no
\* channel, made with the host unset or empty or with a tracing flag
\* disabled, constructs nothing, returns nothing and leaves the session
\* Absent; a later call on that session, made when the host is configured
\* and the three flags are enabled, constructs the channel, stores it and
\* calls connect() on it once.
C24_RetryAfterNoCreate ==
    [][ /\ ( ( /\ session = "Session"
               /\ _rpc = None
               /\ ~FullyEnabled
               /\ Session_connect_span_stream )
             => /\ _rpc' = None
                /\ channels' = channels
                /\ calls' = << >>
                /\ ret' = Ret("connect_span_stream", "None", 0) )
        /\ ( ( /\ session = "Session"
               /\ _rpc = None
               /\ ret = Ret("connect_span_stream", "None", 0)
               /\ FullyEnabled
               /\ Session_connect_span_stream )
             => /\ _rpc' = Len(channels) + 1
                /\ Len(channels') = Len(channels) + 1
                /\ channels'[_rpc'].connect_calls = 1
                /\ ~channels'[_rpc'].closed
                /\ RpcCalls(calls', "__init__") = {1}
                /\ RpcCalls(calls', "connect") = {2} )
      ]_vars

\* C24 witness: a connect_span_stream call has ended without a channel on a
\* default session, and the configuration is now fully enabled.
C24_Witness ==
    /\ session = "Session"
    /\ _rpc = None
    /\ channels = << >>
    /\ ret = Ret("connect_span_stream", "None", 0)
    /\ FullyEnabled

\* C25: shutdown_span_stream raises nothing in any state: with no channel it
\* calls nothing; with a channel it calls close() on the stored channel and
\* nothing else, so never connect(), Protocol.send or close_connection.
C25_ShutdownSpanStreamSafe ==
    ret.op = "shutdown_span_stream" =>
        /\ ret.kind = "None"
        /\ IF _rpc = None
           THEN calls = << >>
           ELSE /\ calls = << [on |-> "StreamingRpc", method |-> "close",
                               obj |-> _rpc] >>
                /\ channels[_rpc].closed

\* C25 witness: shutdown_span_stream closed a stored channel whose connect()
\* had failed.
C25_Witness ==
    /\ ret.op = "shutdown_span_stream"
    /\ _rpc # None
    /\ ~channels[_rpc].connected
    /\ channels[_rpc].closed
    /\ Len(calls) = 1

\* C26: whether the session holds a channel changes in connect_span_stream
\* only; every payload method, get_log_events_common_block, shutdown_session,
\* finalize and close_connection leaves the stored channel as it was and
\* calls neither connect() nor close() on it, whether it returns or raises.
C26_OnlyConnectChangesChannel ==
    [][ /\ _rpc' # _rpc => ret'.op = "connect_span_stream"
        /\ ret'.op \in SendMethods \cup {"get_log_events_common_block",
                                         "finalize", "close_connection"}
              => /\ UNCHANGED <<_rpc, channels>>
                 /\ RpcCalls(calls', "connect") = {}
                 /\ RpcCalls(calls', "close") = {}
      ]_vars

\* C26 witness: finalize raised on a session whose channel is active, and
\* the channel is still stored and active.
C26_Witness ==
    /\ ret = Ret("finalize", "raise", 0)
    /\ SpanState = "Active"
    /\ Len(calls) = 1
    /\ calls[1].method = "finalize"

====
